---- MODULE Spec2Model ----
(***************************************************************************)
(* Pegasus: a command-line tool that sends text to an OpenAI-compatible    *)
(* chat-completions service for refinement.  The model follows one         *)
(* invocation: main (src/src/main.rs), the orchestrator App                *)
(* (src/src/app/mod.rs), the input reader (src/src/input/mod.rs), the LLM  *)
(* client (src/src/llm/client.rs) and the HTTP client                      *)
(* (src/src/network/mod.rs).                                               *)
(*                                                                         *)
(* Strings are sequences of one-character strings.  The file system and    *)
(* the remote service are the environment: the outcome of a read or of a   *)
(* request is chosen when the program performs it.                         *)
(***************************************************************************)
EXTENDS Integers, Sequences, FiniteSets, TLC

\* ------------------------------------------------------------------ bounds
MaxLen == 2              \* longest text (inline input, file content)
MaxChoices == 2          \* most choices in a chat-completion response
MaxFileLen == 3          \* longest dictionary file of a load_dictionary call
MaxOps == 3              \* most calls of Config functions in a row
MaxWords == 3            \* most words in a Whisper transcription

\* ------------------------------------------------------- program constants
STATUS_OK == 200           \* reqwest::StatusCode::OK
STATUS_NOT_FOUND == 404    \* reqwest::StatusCode::NOT_FOUND

DEFAULT_LLM_URL == "http://127.0.0.1:8080"
ENDPOINT == "v1/chat/completions"

\* -------------------------------------------------------------- data types
None == [some |-> FALSE]
Some(v) == [some |-> TRUE, val |-> v]
Option(S) == {None} \cup {Some(v) : v \in S}

Ok(v) == [ok |-> TRUE, val |-> v]
Err(e) == [ok |-> FALSE, err |-> e]

\* the characters of input texts: whitespace, and two characters that are
\* plain text to refine_text and JSON punctuation to the Whisper parser
Chars == {" ", "{", "}"}
\* the characters of dictionary files
DictChars == {" ", "a", "#", "\n"}

SeqsUpTo(S, n) == UNION {[1..k -> S] : k \in 0..n}

Texts == SeqsUpTo(Chars, MaxLen)
DictContents == SeqsUpTo(DictChars, MaxLen)
\* message contents a service may answer with
ResponseContents == {<<" ">>, <<"a">>, <<" ", "a", " ">>}
ChoiceLists == SeqsUpTo(ResponseContents, MaxChoices)

InputPaths == {"in.txt"}

\* char::is_whitespace restricted to the alphabet of the model
IsWhitespace(c) == c \in {" ", "\n"}

RECURSIVE TrimStart(_)
TrimStart(s) ==
  IF s = <<>> THEN s
  ELSE IF IsWhitespace(Head(s)) THEN TrimStart(Tail(s)) ELSE s

RECURSIVE TrimEnd(_)
TrimEnd(s) ==
  IF s = <<>> THEN s
  ELSE IF IsWhitespace(s[Len(s)]) THEN TrimEnd(SubSeq(s, 1, Len(s) - 1)) ELSE s

\* str::trim as the code uses it (input.trim(), content.trim(), line.trim())
trim(s) == TrimEnd(TrimStart(s))

\* ------------------------------------------------------------ file system
\* operations::read_to_string: the outcomes a read of a text file can have
ReadOutcomes(S) == {Err("FileRead")} \cup {Ok(t) : t \in S}

\* ----------------------------------------------------------- input reader
\* resolve_input_source with the two tests swapped: the file path wins
resolve_input_source_file_first(input, file_path) ==
  IF file_path.some THEN Ok([kind |-> "File", val |-> file_path.val])
  ELSE IF input.some THEN Ok([kind |-> "Input", val |-> input.val])
  ELSE Err("NoInputProvided")

\* InputSource::resolve_input_source
resolve_input_source(input, file_path) ==
  IF input.some THEN Ok([kind |-> "Input", val |-> input.val])
  ELSE IF file_path.some THEN Ok([kind |-> "File", val |-> file_path.val])
  ELSE Err("NoInputProvided")

\* read_from_input_source returning the trimmed copy it tested
read_from_input_source_trimmed(source, outcome) ==
  IF source.kind = "Input"
    THEN IF trim(source.val) = <<>> THEN Err("EmptyInput")
         ELSE Ok(trim(source.val))
    ELSE IF ~outcome.ok THEN Err("FileReadError")
         ELSE IF trim(outcome.val) = <<>> THEN Err("EmptyInput")
              ELSE Ok(trim(outcome.val))

\* read_from_input_source testing the raw value for emptiness, untrimmed
read_from_input_source_untrimmed_test(source, outcome) ==
  IF source.kind = "Input"
    THEN IF source.val = <<>> THEN Err("EmptyInput") ELSE Ok(source.val)
    ELSE IF ~outcome.ok THEN Err("FileReadError")
         ELSE IF outcome.val = <<>> THEN Err("EmptyInput")
              ELSE Ok(outcome.val)

\* InputSource::read_from_input_source; `outcome` is what read_to_string
\* gives for the file, used only by the File variant
read_from_input_source(source, outcome) ==
  IF source.kind = "Input"
    THEN IF trim(source.val) = <<>> THEN Err("EmptyInput") ELSE Ok(source.val)
    ELSE IF ~outcome.ok THEN Err("FileReadError")
         ELSE IF trim(outcome.val) = <<>> THEN Err("EmptyInput")
              ELSE Ok(outcome.val)

\* InputReader::read_input
read_input(input, file_path, outcome) ==
  LET input_source == resolve_input_source(input, file_path) IN
    IF ~input_source.ok THEN input_source
    ELSE read_from_input_source(input_source.val, outcome)

\* the files InputReader::read_input opens: the path of a File source, with
\* what the read gave
read_input_touches(input, file_path, outcome) ==
  LET input_source == resolve_input_source(input, file_path) IN
    IF input_source.ok /\ input_source.val.kind = "File"
      THEN <<[path |-> input_source.val.val, by |-> "input",
              outcome |-> outcome]>>
      ELSE <<>>

\* ---------------------------------------------------------- configuration
\* Config, with its sections LLMConfig and GeneralConfig
MakeConfig(url, custom_dictionary_path) ==
  [llm |-> [url |-> url],
   general |-> [custom_dictionary_path |-> custom_dictionary_path]]

\* impl Default for Config
Config_default == MakeConfig(Some(DEFAULT_LLM_URL), Some(""))

\* Config::get_llm_url
get_llm_url(cfg) ==
  IF cfg.llm.url.some THEN cfg.llm.url.val ELSE DEFAULT_LLM_URL

\* Config::get_custom_dictionary_path
get_custom_dictionary_path(cfg) ==
  IF cfg.general.custom_dictionary_path.some
    THEN cfg.general.custom_dictionary_path.val ELSE ""

\* A TOML document: whether it is well-formed TOML, and the tables [llm] and
\* [general] it holds.  An absent Option field is an absent key.
MakeToml(syntax_ok, llm, general) ==
  [syntax_ok |-> syntax_ok, llm |-> llm, general |-> general]

\* toml::from_str in Config::load_from_path: both tables are required
toml_from_str(doc) ==
  IF doc.syntax_ok /\ doc.llm.some /\ doc.general.some
    THEN Ok([llm |-> doc.llm.val, general |-> doc.general.val])
    ELSE Err("Parse")

\* the config file: absent, present but unreadable, or present with content
AbsentFile == [state |-> "absent", content |-> MakeToml(FALSE, None, None)]
UnreadableFile == [state |-> "unreadable", content |-> MakeToml(FALSE, None, None)]
PresentFile(doc) == [state |-> "present", content |-> doc]

\* Config::load_from_path
load_from_path(file) ==
  IF file.state # "present" THEN Err("FileRead")
  ELSE toml_from_str(file.content)

\* Config::load going to load_from_path whether or not the file exists
Config_load_no_default(file) == load_from_path(file)

\* Config::load: find_config_file gives no path when the file does not exist
Config_load(file) ==
  IF file.state = "absent" THEN Ok(Config_default)
  ELSE load_from_path(file)

\* toml::to_string_pretty leaving out the table [general]
toml_to_string_llm_only(cfg) == MakeToml(TRUE, Some(cfg.llm), None)

\* toml::to_string_pretty(&config) in Config::save_to_path
toml_to_string(cfg) == MakeToml(TRUE, Some(cfg.llm), Some(cfg.general))

\* Config::reset_to_defaults with Config::save_to_path: the file after the
\* call and the result, given whether the directory and the file can be
\* written.  tokio::fs::write replaces the content and nothing else: a file
\* that could not be read for want of permission still cannot, one that
\* could not be read for its content now can (`readable`).
reset_to_defaults(file, writable, readable) ==
  IF writable
    THEN [file |-> [state |-> IF file.state = "unreadable" /\ ~readable
                                THEN "unreadable" ELSE "present",
                    content |-> toml_to_string(Config_default)],
          result |-> Ok(TRUE)]
    ELSE [file |-> file, result |-> Err("FileRead")]

\* -------------------------------------------------------------- dictionary
DICT_PATH == "dict.txt"

RECURSIVE SplitOn(_, _, _)
\* the pieces of s between occurrences of sep; cur is the piece being read
SplitOn(s, sep, cur) ==
  IF s = <<>> THEN <<cur>>
  ELSE IF Head(s) = sep THEN <<cur>> \o SplitOn(Tail(s), sep, <<>>)
       ELSE SplitOn(Tail(s), sep, Append(cur, Head(s)))

\* str::lines: split at line feeds; a final empty piece is no line
lines(s) ==
  LET pieces == SplitOn(s, "\n", <<>>) IN
    IF pieces[Len(pieces)] = <<>> THEN SubSeq(pieces, 1, Len(pieces) - 1)
    ELSE pieces

starts_with(s, c) == s # <<>> /\ Head(s) = c

RECURSIVE MapTrim(_)
MapTrim(ls) == IF ls = <<>> THEN <<>> ELSE <<trim(Head(ls))>> \o MapTrim(Tail(ls))

RECURSIVE FilterWords(_)
FilterWords(ls) ==
  IF ls = <<>> THEN <<>>
  ELSE IF Head(ls) # <<>> /\ ~starts_with(Head(ls), "#")
         THEN <<Head(ls)>> \o FilterWords(Tail(ls))
         ELSE FilterWords(Tail(ls))

\* the filter of App::load_dictionary applied to the lines as they are in
\* the file, without the trim
parse_dictionary_untrimmed(content) == FilterWords(lines(content))

\* the lines().map(trim).filter(..).collect() of App::load_dictionary
parse_dictionary(content) == FilterWords(MapTrim(lines(content)))

RuntimeError(class, cause) == [class |-> class, cause |-> cause]

\* App::load_dictionary; `outcome` is what read_to_string gives for the
\* dictionary file, used only when a path is configured
load_dictionary(cfg, outcome) ==
  LET dictionary_path == get_custom_dictionary_path(cfg) IN
    IF dictionary_path = "" THEN Ok(<<>>)
    ELSE IF ~outcome.ok
           THEN Err(RuntimeError("Input", <<"Failed to read dictionary", outcome.err>>))
           ELSE Ok(parse_dictionary(outcome.val))

\* the files App::load_dictionary opens
load_dictionary_touches(cfg) ==
  LET dictionary_path == get_custom_dictionary_path(cfg) IN
    IF dictionary_path = "" THEN <<>>
    ELSE <<[path |-> dictionary_path, by |-> "dictionary"]>>

\* ------------------------------------------------------ Whisper transcript
\* WhisperTranscription with every optional field absent
EmptyTranscription ==
  [text |-> None, language |-> None, duration |-> None, segments |-> None]

\* serde_json::from_str::<WhisperTranscription> on the texts of the model:
\* over the characters of Chars the only documents that deserialize are an
\* empty JSON object surrounded by JSON whitespace
parse_whisper_json(s) ==
  LET t == trim(s) IN
    IF Len(t) >= 2 /\ Head(t) = "{" /\ t[Len(t)] = "}"
       /\ \A i \in 2..(Len(t) - 1) : IsWhitespace(t[i])
      THEN Ok(EmptyTranscription)
      ELSE Err("serde_json::Error")

\* WhisperTranscription::language_or_default
language_or_default(transcription) ==
  IF transcription.language.some THEN transcription.language.val ELSE "unknown"

\* ----------------------------------------------------------------- prompts
RECURSIVE JoinWords(_, _)
\* [String]::join
JoinWords(words, sep) ==
  IF words = <<>> THEN <<>>
  ELSE IF Len(words) = 1 THEN Head(words)
       ELSE Head(words) \o sep \o JoinWords(Tail(words), sep)

\* the dictionary clause shared by both system prompts
dictionary_section(dictionary_words) ==
  IF dictionary_words = <<>> THEN None
  ELSE Some(JoinWords(dictionary_words, <<",", " ">>))

\* build_system_prompt: the fixed template and the dictionary clause
build_system_prompt(dictionary_words) ==
  [template |-> "refine", dictionary |-> dictionary_section(dictionary_words)]

\* build_user_prompt
build_user_prompt(text) ==
  [header |-> "Please refine the following transcribed text:", text |-> text]

\* build_whisper_system_prompt
build_whisper_system_prompt(dictionary_words) ==
  [template |-> "refine_whisper",
   dictionary |-> dictionary_section(dictionary_words)]

\* ChatCompletionRequest::new with the system and the user message
ChatCompletionRequest(system_prompt, user_prompt) ==
  [messages |-> <<[role |-> "system", content |-> system_prompt],
                  [role |-> "user", content |-> user_prompt]>>]

\* ---------------------------------------------------- confidence filtering
\* probabilities and thresholds are counted in hundredths; the thresholds a
\* configuration may hold (Config::get_whisper_probability_threshold)
Thresholds == {30, 50}

RECURSIVE FlatWords(_)
\* segments.iter().flat_map(|segment| &segment.words)
FlatWords(segments) ==
  IF segments = <<>> THEN <<>>
  ELSE Head(segments).words \o FlatWords(Tail(segments))

RECURSIVE FilterLow(_, _)
FilterLow(words, threshold) ==
  IF words = <<>> THEN <<>>
  ELSE IF Head(words).probability < threshold
         THEN <<Head(words)>> \o FilterLow(Tail(words), threshold)
         ELSE FilterLow(Tail(words), threshold)

RECURSIVE FilterAtMost(_, _)
FilterAtMost(words, threshold) ==
  IF words = <<>> THEN <<>>
  ELSE IF Head(words).probability <= threshold
         THEN <<Head(words)>> \o FilterAtMost(Tail(words), threshold)
         ELSE FilterAtMost(Tail(words), threshold)

\* get_low_probability_words keeping the words at the threshold as well
get_low_probability_words_inclusive(transcription, threshold) ==
  IF ~transcription.segments.some THEN <<>>
  ELSE FilterAtMost(FlatWords(transcription.segments.val), threshold)

\* WhisperTranscription::get_low_probability_words
get_low_probability_words(transcription, threshold) ==
  IF ~transcription.segments.some THEN <<>>
  ELSE FilterLow(FlatWords(transcription.segments.val), threshold)

RECURSIVE JoinTexts(_, _)
JoinTexts(segments, sep) ==
  IF segments = <<>> THEN <<>>
  ELSE IF Len(segments) = 1 THEN Head(segments).text
       ELSE Head(segments).text \o sep \o JoinTexts(Tail(segments), sep)

\* WhisperTranscription::full_text
full_text(transcription) ==
  IF transcription.text.some THEN transcription.text.val
  ELSE IF ~transcription.segments.some THEN <<>>
       ELSE JoinTexts(transcription.segments.val, <<"\n">>)

Digit(n) == <<"0", "1", "2", "3", "4", "5", "6", "7", "8", "9">>[n + 1]

\* format!("{:.2}", p) for a probability of p hundredths
format_probability(p) ==
  <<Digit(p \div 100), ".", Digit((p \div 10) % 10), Digit(p % 10)>>

IsPrefixOf(pat, s) == Len(pat) <= Len(s) /\ SubSeq(s, 1, Len(pat)) = pat

RECURSIVE replace(_, _, _)
\* str::replace: every non-overlapping match of pat, from the left
replace(s, pat, rep) ==
  IF s = <<>> THEN <<>>
  ELSE IF IsPrefixOf(pat, s)
         THEN rep \o replace(SubSeq(s, Len(pat) + 1, Len(s)), pat, rep)
         ELSE <<Head(s)>> \o replace(Tail(s), pat, rep)

\* the text " [LOW PROBABILITY: " of the flag, character by character
FLAG_OPEN ==
  <<" ", "[", "L", "O", "W", " ", "P", "R", "O", "B", "A", "B", "I", "L",
    "I", "T", "Y", ":", " ">>

\* the flag without the word it stands for
low_probability_flag_bare(trimmed_word, probability) ==
  FLAG_OPEN \o format_probability(probability) \o <<"]">>

\* the flag build_whisper_user_prompt puts in place of a word
low_probability_flag(trimmed_word, probability) ==
  trimmed_word \o FLAG_OPEN \o format_probability(probability) \o <<"]">>

RECURSIVE flag_segment_text(_, _)
\* the inner loop of build_whisper_user_prompt over low_probability_words
flag_segment_text(segment_text, low_words) ==
  IF low_words = <<>> THEN segment_text
  ELSE LET trimmed_word == trim(Head(low_words).word) IN
    flag_segment_text(
      IF trimmed_word # <<>>
        THEN replace(segment_text, trimmed_word,
                     low_probability_flag(trimmed_word, Head(low_words).probability))
        ELSE segment_text,
      Tail(low_words))

RECURSIVE format_segments(_, _)
\* the outer loop of build_whisper_user_prompt: each segment and a line feed
format_segments(segments, low_words) ==
  IF segments = <<>> THEN <<>>
  ELSE flag_segment_text(Head(segments).text, low_words) \o <<"\n">>
         \o format_segments(Tail(segments), low_words)

\* build_whisper_user_prompt
build_whisper_user_prompt(transcription, threshold) ==
  IF transcription.segments.some
    THEN [header |-> "Please refine the following transcribed text ({}). Words with probability scores below {:.2} are marked with [LOW PROBABILITY: X.XX]:",
          language |-> language_or_default(transcription),
          threshold |-> format_probability(threshold),
          text |-> format_segments(transcription.segments.val,
                     get_low_probability_words(transcription, threshold))]
    ELSE [header |-> "Please refine the following transcribed text ({}):",
          language |-> language_or_default(transcription),
          text |-> full_text(transcription)]

\* ------------------------------------------------------------- HTTP client
BAD_URL == "not a url"
SLASH_URL == "http://llm.local/"

\* reqwest::Url::parse on the URLs of the model
UrlParses(u) == u \in {DEFAULT_LLM_URL, SLASH_URL}

\* str::ends_with("/") on the URLs of the model
EndsWithSlash(u) == u = SLASH_URL

\* the full_url of post_with_json, as the pieces that are concatenated
full_url(base_url, endpoint) ==
  IF EndsWithSlash(base_url) THEN <<base_url, endpoint>>
  ELSE <<base_url, "/", endpoint>>

Statuses == {STATUS_OK, 201, STATUS_NOT_FOUND, 500}

\* what the network can answer to the probe GET
ProbeOutcomes ==
  {[connected |-> FALSE, status |-> 0]}
    \cup {[connected |-> TRUE, status |-> st] : st \in Statuses}

\* StatusCode::is_success
is_success(status) == status >= 200 /\ status < 300

\* what the network can answer to the POST; body is the decoded
\* ChatCompletionResponse.choices, None when the body does not deserialize.
\* The body of a response is read only when its status is a success: with
\* another status one body that would deserialize stands for all of them.
PostOutcomes ==
  {[connected |-> FALSE, status |-> 0, body |-> None]}
    \cup {[connected |-> TRUE, status |-> st, body |-> None] : st \in Statuses}
    \cup {[connected |-> TRUE, status |-> st, body |-> Some(b)] :
            st \in {x \in Statuses : is_success(x)}, b \in ChoiceLists}
    \cup {[connected |-> TRUE, status |-> st, body |-> Some(<<<<"a">>>>)] :
            st \in {x \in Statuses : ~is_success(x)}}

\* check_url without the test of the status of the GET
check_url_any_status(base_url, probe) ==
  IF ~UrlParses(base_url) THEN Err("InvalidURL")
  ELSE IF ~probe.connected THEN Err("RequestFailed")
  ELSE Ok(TRUE)

\* check_url taking status 200 alone for a reachable service
check_url_ok_only(base_url, probe) ==
  IF ~UrlParses(base_url) THEN Err("InvalidURL")
  ELSE IF ~probe.connected THEN Err("RequestFailed")
  ELSE IF probe.status # STATUS_OK THEN Err("InvalidURL")
       ELSE Ok(TRUE)

\* HttpClient::check_url, given the answer to the GET when one is sent
check_url(base_url, probe) ==
  IF ~UrlParses(base_url) THEN Err("InvalidURL")
  ELSE IF ~probe.connected THEN Err("RequestFailed")
  ELSE IF probe.status # STATUS_OK /\ probe.status # STATUS_NOT_FOUND
         THEN Err("InvalidURL")
         ELSE Ok(TRUE)

\* the requests HttpClient::check_url sends: a GET once the URL has parsed
check_url_requests(base_url, probe) ==
  IF ~UrlParses(base_url) THEN <<>>
  ELSE <<[method |-> "GET", url |-> <<base_url>>,
          connected |-> probe.connected, status |-> probe.status]>>

\* post_with_json decoding the body whatever the status of the response
post_response_any_status(outcome) ==
  IF ~outcome.connected THEN Err("RequestFailed")
  ELSE IF ~outcome.body.some THEN Err("DecodeError")
       ELSE Ok(outcome.body.val)

\* HttpClient::post_with_json after check_url: send, status check, decode
post_response(outcome) ==
  IF ~outcome.connected THEN Err("RequestFailed")
  ELSE IF ~is_success(outcome.status) THEN Err("ResponseError")
  ELSE IF ~outcome.body.some THEN Err("DecodeError")
       ELSE Ok(outcome.body.val)

\* -------------------------------------------------------------- LLM client
\* the map_err of execute_refinement around post_with_json
ApiRequestFailed(e) == <<"ApiRequestFailed", e>>

RECURSIVE FirstNonBlank(_)
\* the first choice whose content is not blank, or the last choice
FirstNonBlank(choices) ==
  IF Len(choices) = 1 \/ trim(Head(choices)) # <<>> THEN Head(choices)
  ELSE FirstNonBlank(Tail(choices))

\* execute_refinement looking past a blank first choice for a later one
extract_refined_text_any_choice(choices) ==
  IF choices = <<>> THEN Err(<<"InvalidResponse", "No choices in response">>)
  ELSE LET refined == trim(FirstNonBlank(choices)) IN
    IF refined = <<>>
      THEN Err(<<"RefinementFailed", "LLM returned empty content">>)
      ELSE Ok(refined)

\* execute_refinement after the POST: first choice, trimmed, not empty
extract_refined_text(choices) ==
  IF choices = <<>> THEN Err(<<"InvalidResponse", "No choices in response">>)
  ELSE LET refined == trim(Head(choices)) IN
    IF refined = <<>>
      THEN Err(<<"RefinementFailed", "LLM returned empty content">>)
      ELSE Ok(refined)

\* ------------------------------------------------------------------ output
\* OutputFormat::from_flags
from_flags(output_json) == IF output_json THEN "Json" ELSE "Text"

\* the escapes serde_json writes inside a JSON string
JsonEscapeChar(c) ==
  IF c = "\"" THEN <<"\\", "\"">>
  ELSE IF c = "\\" THEN <<"\\", "\\">>
  ELSE IF c = "\n" THEN <<"\\", "n">>
  ELSE <<c>>

RECURSIVE JsonEscape(_)
JsonEscape(s) ==
  IF s = <<>> THEN <<>> ELSE JsonEscapeChar(Head(s)) \o JsonEscape(Tail(s))

\* serde_json::to_string(&json!({ "text": refined_text }))
json_text_object(refined) ==
  <<"{", "\"", "t", "e", "x", "t", "\"", ":", "\"">>
    \o JsonEscape(refined) \o <<"\"", "}">>

\* App::format_output
format_output(refined, fmt) ==
  IF fmt = "Text" THEN Ok(refined) ELSE Ok(json_text_object(refined))

\* ------------------------------------------------------------------- state
VARIABLES
  pc,                \* the position of the single task of the process
  caller,            \* "main": the binary; "app": a direct call of App
  cli,               \* the parsed command line (Cli)
  cfgFile,           \* the config file on disk
  config,            \* App.config, once built
  main_text,         \* main's local input_text
  input,             \* argument `input` of the App call
  file_path,         \* argument `file_path` of the App call
  format,            \* argument `format` of the App call
  flow,              \* the App method running: "text" or "whisper"
  input_text,        \* local input_text of the App method
  transcription,     \* local transcription of refine_whisper_transcription
  dictionary_words,  \* local dictionary_words of the App method
  request,           \* the ChatCompletionRequest of execute_refinement
  completion,        \* the decoded response held by execute_refinement
  refined_text,      \* local refined_text of the App method
  result,            \* the value the App method returned
  read_result,       \* history: what InputReader::read_input returned
  steps,             \* history: the steps of the App method that ran
  failed,            \* history: the steps that failed, with their errors
  fsReads,           \* history: the files opened for reading
  netLog,            \* history: the requests sent, with their outcomes
  stdout,            \* what the process printed to standard output
  stderr,            \* what the process printed to standard error
  exit,              \* the exit status, once the process has ended
  call               \* a function called on its own: arguments and result

vars ==
  <<pc, caller, cli, cfgFile, config, main_text, input, file_path, format,
    flow, input_text, transcription, dictionary_words, request, completion,
    refined_text, result, read_result, steps, failed, fsReads, netLog,
    stdout, stderr, exit, call>>

CONFIG_PATH == "config.toml"

\* the Cli struct with the fields of Commands::WhisperTranscribe; clap
\* rejects --input together with --file at either level
WhisperInlineInputs == {<<"{", "}">>, <<"}">>}

NoSubArgs(c) ==
  ~c.sub_input.some /\ ~c.sub_file.some /\ ~c.sub_output_json

CliArgs ==
  {c \in [command : {"None", "ResetConfig", "WhisperTranscribe"},
          input : Option(Texts),
          file : Option(InputPaths),
          output_json : BOOLEAN,
          sub_input : Option(WhisperInlineInputs),
          sub_file : Option(InputPaths),
          sub_output_json : BOOLEAN] :
     /\ ~(c.input.some /\ c.file.some)
     /\ ~(c.sub_input.some /\ c.sub_file.some)
     /\ c.command # "WhisperTranscribe" => NoSubArgs(c)}

NoCli ==
  [command |-> "None", input |-> None, file |-> None, output_json |-> FALSE,
   sub_input |-> None, sub_file |-> None, sub_output_json |-> FALSE]

\* the config files a run may find
ConfigFiles ==
  {AbsentFile, UnreadableFile,
   PresentFile(MakeToml(FALSE, None, None)),
   PresentFile(MakeToml(TRUE, None, Some(Config_default.general))),
   PresentFile(toml_to_string(Config_default)),
   PresentFile(toml_to_string(MakeConfig(None, Some(DICT_PATH)))),
   PresentFile(toml_to_string(MakeConfig(Some(BAD_URL), None)))}

\* the configurations an App may be built with
AppConfigs ==
  {Config_default,
   MakeConfig(None, Some(DICT_PATH)),
   MakeConfig(Some(SLASH_URL), Some("")),
   MakeConfig(Some(BAD_URL), None)}

\* no function is called on its own: the process or the App method runs
NoCall == [fn |-> "none"]

\* what every run starts with, whoever the caller is
InitLocals ==
  /\ main_text = None
  /\ input_text = None
  /\ transcription = None
  /\ dictionary_words = <<>>
  /\ request = None
  /\ completion = None
  /\ refined_text = None
  /\ result = None
  /\ read_result = None
  /\ steps = <<>>
  /\ failed = <<>>
  /\ fsReads = <<>>
  /\ netLog = <<>>
  /\ stdout = <<>>
  /\ stderr = <<>>
  /\ exit = None

\* the process is started: main is about to run
Init ==
  /\ caller = "main"
  /\ pc = "main_load_config"
  /\ cli \in CliArgs
  /\ cfgFile \in ConfigFiles
  /\ config = None
  /\ input = None
  /\ file_path = None
  /\ format = "Text"
  /\ flow = "none"
  /\ call = NoCall
  /\ InitLocals

\* App::new(config) followed by a call of refine_text or of
\* refine_whisper_transcription with any arguments
InitApp ==
  /\ caller = "app"
  /\ pc = "app_read_input"
  /\ cli = NoCli
  /\ cfgFile = AbsentFile
  /\ config \in {Some(c) : c \in AppConfigs}
  /\ input \in Option(Texts)
  /\ file_path \in Option(InputPaths)
  /\ format \in {"Text", "Json"}
  /\ flow \in {"text", "whisper"}
  /\ call = NoCall
  /\ InitLocals

\* where the App method returns to
ReturnPc == IF caller = "main" THEN "main_print" ELSE "returned"

\* a step whose error is not propagated: the method goes on regardless
try_next_ignore(r, next, ret) == next

\* the `?` operator: go on when the step succeeded, return the error otherwise
try_next(r, next, ret) == IF r.ok THEN next ELSE ret

\* -------------------------------------------------------------------- main
\* main going on with an empty text when neither --input nor --file is given
main_resolve_input_no_check(c, outcome) ==
  IF c.input.some THEN Ok(c.input.val)
  ELSE IF c.file.some
         THEN IF outcome.ok THEN Ok(outcome.val)
              ELSE Err([msg |-> "Error reading file: {}",
                        file_error |-> outcome.err])
         ELSE Ok(<<>>)

\* main.rs 29-46: the text main passes on, or the message it prints to
\* standard error before exiting with status 1
main_resolve_input(c, outcome) ==
  IF c.input.some THEN Ok(c.input.val)
  ELSE IF c.file.some
         THEN IF outcome.ok THEN Ok(outcome.val)
              ELSE Err([msg |-> "Error reading file: {}",
                        file_error |-> outcome.err])
         ELSE Err([msg |-> "Please provide input text or a file path."])

\* main printing the error of the App call without exiting with status 1
main_report_exit_zero(r) ==
  IF r.ok
    THEN [out |-> <<[line |-> r.val]>>, err |-> <<>>, code |-> 0]
    ELSE [out |-> <<>>,
          err |-> <<[msg |-> "{}", runtime_error |-> r.err]>>, code |-> 0]

\* main.rs 62-68: what main prints for the result of the App call, and the
\* exit status
main_report(r) ==
  IF r.ok
    THEN [out |-> <<[line |-> r.val]>>, err |-> <<>>, code |-> 0]
    ELSE [out |-> <<>>,
          err |-> <<[msg |-> "{}", runtime_error |-> r.err]>>, code |-> 1]

\* main.rs 20-26: Config::load, and App::new on success
Main_LoadConfig ==
  /\ pc = "main_load_config"
  /\ LET r == Config_load(cfgFile) IN
       /\ fsReads' = fsReads \o
            (IF cfgFile.state = "absent" THEN <<>>
             ELSE <<[path |-> CONFIG_PATH, by |-> "config"]>>)
       /\ IF r.ok
            THEN /\ config' = Some(r.val)
                 /\ pc' = "main_input"
                 /\ UNCHANGED <<stderr, exit>>
            ELSE /\ stderr' = Append(stderr, [msg |-> "Configuration Error: {}",
                                              config_error |-> r.err])
                 /\ exit' = Some(1)
                 /\ pc' = "exited"
                 /\ UNCHANGED config
  /\ UNCHANGED <<call, caller, cli, cfgFile, main_text, input, file_path, format,
                 flow, input_text, transcription, dictionary_words, request,
                 completion, refined_text, result, read_result, steps, failed,
                 netLog, stdout>>

\* main.rs 29-46: the match on cli.input and cli.file
Main_ResolveInput ==
  /\ pc = "main_input"
  /\ \E outcome \in ReadOutcomes(Texts) :
       LET r == main_resolve_input(cli, outcome) IN
         /\ fsReads' = fsReads \o
              (IF ~cli.input.some /\ cli.file.some
                 THEN <<[path |-> cli.file.val, by |-> "main"]>> ELSE <<>>)
         /\ IF r.ok
              THEN /\ main_text' = Some(r.val)
                   /\ pc' = "main_dispatch"
                   /\ UNCHANGED <<stderr, exit>>
              ELSE /\ stderr' = Append(stderr, r.err)
                   /\ exit' = Some(1)
                   /\ pc' = "exited"
                   /\ UNCHANGED main_text
  /\ UNCHANGED <<call, caller, cli, cfgFile, config, input, file_path, format, flow,
                 input_text, transcription, dictionary_words, request,
                 completion, refined_text, result, read_result, steps, failed,
                 netLog, stdout>>

\* main.rs 49-58: the arm Some(Commands::ResetConfig)
Main_ResetConfig ==
  /\ pc = "main_dispatch"
  /\ cli.command = "ResetConfig"
  /\ \E writable, readable \in BOOLEAN :
       LET r == reset_to_defaults(cfgFile, writable, readable) IN
         /\ cfgFile' = r.file
         /\ IF r.result.ok
              THEN /\ stdout' = Append(stdout,
                        [msg |-> "Configuration has been reset to default values."])
                   /\ exit' = Some(0)
                   /\ UNCHANGED stderr
              ELSE /\ stderr' = Append(stderr,
                        [msg |-> "Failed to reset configuration: {}",
                         config_error |-> r.result.err])
                   /\ exit' = Some(1)
                   /\ UNCHANGED stdout
  /\ pc' = "exited"
  /\ UNCHANGED <<call, caller, cli, config, main_text, input, file_path, format,
                 flow, input_text, transcription, dictionary_words, request,
                 completion, refined_text, result, read_result, steps, failed,
                 fsReads, netLog>>

\* main.rs 59: the arm None, app.refine_text(input_text).  main hands over
\* the text it resolved and nothing else: it reads neither cli.output_json
\* nor the fields of the subcommand.  The match of main.rs 48-60 has the
\* arms Some(Commands::ResetConfig) and None only: for
\* Commands::WhisperTranscribe main defines no step.
Main_CallRefineText ==
  /\ pc = "main_dispatch"
  /\ cli.command = "None"
  /\ input' = Some(main_text.val)
  /\ file_path' = None
  /\ format' = "Text"
  /\ flow' = "text"
  /\ main_text' = None
  /\ pc' = "app_read_input"
  /\ UNCHANGED <<call, caller, cli, cfgFile, config, input_text, transcription,
                 dictionary_words, request, completion, refined_text, result,
                 read_result, steps, failed, fsReads, netLog, stdout, stderr,
                 exit>>

\* main.rs 62-68: print the output, or the error and exit with status 1
Main_Print ==
  /\ pc = "main_print"
  /\ LET rep == main_report(result.val) IN
       /\ stdout' = stdout \o rep.out
       /\ stderr' = stderr \o rep.err
       /\ exit' = Some(rep.code)
  /\ pc' = "exited"
  /\ UNCHANGED <<call, caller, cli, cfgFile, config, main_text, input, file_path,
                 format, flow, input_text, transcription, dictionary_words,
                 request, completion, refined_text, result, read_result, steps,
                 failed, fsReads, netLog>>

\* --------------------------------------------------------------------- App
\* the record of a failed step
Failure(step, error) == [step |-> step, error |-> error]

\* App::refine_text and App::refine_whisper_transcription: InputReader::
\* read_input, with the map_err to RuntimeError::Input
App_ReadInput ==
  /\ pc = "app_read_input"
  /\ \E outcome \in ReadOutcomes(Texts) :
       LET r == read_input(input, file_path, outcome)
           e == RuntimeError("Input", <<r.err>>)
       IN
         /\ read_result' = Some(r)
         /\ fsReads' = fsReads \o read_input_touches(input, file_path, outcome)
         /\ steps' = Append(steps, "input")
         /\ input_text' = IF r.ok THEN Some(r.val) ELSE None
         /\ result' = IF r.ok THEN result ELSE Some(Err(e))
         /\ failed' = IF r.ok THEN failed ELSE Append(failed, Failure("input", e))
         /\ pc' = try_next(r,
                    IF flow = "whisper" THEN "app_parse_whisper"
                    ELSE "app_load_dictionary",
                    ReturnPc)
  /\ UNCHANGED <<call, caller, cli, cfgFile, config, main_text, input, file_path,
                 format, flow, transcription, dictionary_words, request,
                 completion, refined_text, netLog, stdout, stderr, exit>>

\* refine_whisper_transcription going on to the dictionary whatever the
\* parser returned
after_parse_ignore(r, ret) == "app_load_dictionary"

\* where refine_whisper_transcription goes after serde_json::from_str
after_parse(r, ret) == try_next(r, "app_load_dictionary", ret)

\* App::refine_whisper_transcription: serde_json::from_str of the input,
\* with the map_err that puts the parser's message into RuntimeError::Input
App_ParseWhisper ==
  /\ pc = "app_parse_whisper"
  /\ LET r == parse_whisper_json(input_text.val)
         e == RuntimeError("Input", <<"Failed to parse Whisper JSON: {}", r.err>>)
     IN
       /\ steps' = Append(steps, "parse")
       /\ transcription' = IF r.ok THEN Some(r.val) ELSE None
       /\ result' = IF r.ok THEN result ELSE Some(Err(e))
       /\ failed' = IF r.ok THEN failed ELSE Append(failed, Failure("parse", e))
       /\ pc' = after_parse(r, ReturnPc)
  /\ UNCHANGED <<call, caller, cli, cfgFile, config, main_text, input, file_path,
                 format, flow, input_text, dictionary_words, request,
                 completion, refined_text, read_result, fsReads, netLog,
                 stdout, stderr, exit>>

\* self.load_dictionary().await?
App_LoadDictionary ==
  /\ pc = "app_load_dictionary"
  /\ \E outcome \in ReadOutcomes(DictContents) :
       LET r == load_dictionary(config.val, outcome) IN
         /\ fsReads' = fsReads \o load_dictionary_touches(config.val)
         /\ steps' = Append(steps, "dictionary")
         /\ dictionary_words' = IF r.ok THEN r.val ELSE dictionary_words
         /\ result' = IF r.ok THEN result ELSE Some(Err(r.err))
         /\ failed' = IF r.ok THEN failed
                      ELSE Append(failed, Failure("dictionary", r.err))
         /\ pc' = try_next(r, "llm_build_request", ReturnPc)
  /\ UNCHANGED <<call, caller, cli, cfgFile, config, main_text, input, file_path,
                 format, flow, input_text, transcription, request, completion,
                 refined_text, read_result, netLog, stdout, stderr, exit>>

\* LLMClient::refine_text / refine_whisper_transcription: the prompts, and
\* the request execute_refinement builds from them
LLM_BuildRequest ==
  /\ pc = "llm_build_request"
  /\ steps' = Append(steps, "prompt")
  /\ \E probability_threshold \in Thresholds :
       request' =
         Some(IF flow = "whisper"
                THEN ChatCompletionRequest(
                       build_whisper_system_prompt(dictionary_words),
                       build_whisper_user_prompt(transcription.val,
                         probability_threshold))
                ELSE ChatCompletionRequest(
                       build_system_prompt(dictionary_words),
                       build_user_prompt(input_text.val)))
  /\ pc' = "http_check_url"
  /\ UNCHANGED <<call, caller, cli, cfgFile, config, main_text, input, file_path,
                 format, flow, input_text, transcription, dictionary_words,
                 completion, refined_text, result, read_result, failed,
                 fsReads, netLog, stdout, stderr, exit>>

\* the error of the LLM client surfaced in the class kept for the LLM
RefinementError_as_LLM(llm_error) == RuntimeError("LLM", llm_error)

\* the error of the LLM client as App surfaces it
RefinementError(llm_error) == RuntimeError("Refinement", llm_error)

\* HttpClient::post_with_json: self.check_url().await?
Http_CheckUrl ==
  /\ pc = "http_check_url"
  /\ \E probe \in ProbeOutcomes :
       LET base_url == get_llm_url(config.val)
           r == check_url(base_url, probe)
           e == RefinementError(ApiRequestFailed(r.err))
       IN
         /\ netLog' = netLog \o check_url_requests(base_url, probe)
         /\ steps' = Append(steps, "probe")
         /\ result' = IF r.ok THEN result ELSE Some(Err(e))
         /\ failed' = IF r.ok THEN failed ELSE Append(failed, Failure("probe", e))
         /\ pc' = try_next(r, "http_post", ReturnPc)
  /\ UNCHANGED <<call, caller, cli, cfgFile, config, main_text, input, file_path,
                 format, flow, input_text, transcription, dictionary_words,
                 request, completion, refined_text, read_result, fsReads,
                 stdout, stderr, exit>>

\* a POST that is sent again when it failed
after_post_retry(r, ret) == IF r.ok THEN "llm_extract" ELSE "http_post"

\* where post_with_json goes after the POST
after_post(r, ret) == try_next(r, "llm_extract", ret)

\* HttpClient::post_with_json after the probe: the POST, the status check
\* and the decoding of the body
Http_Post ==
  /\ pc = "http_post"
  /\ \E outcome \in PostOutcomes :
       LET r == post_response(outcome)
           e == RefinementError(ApiRequestFailed(r.err))
       IN
         /\ netLog' = Append(netLog,
              [method |-> "POST",
               url |-> full_url(get_llm_url(config.val), ENDPOINT),
               connected |-> outcome.connected, status |-> outcome.status,
               body_decodes |-> outcome.body.some])
         /\ steps' = Append(steps, "post")
         /\ completion' = IF r.ok THEN Some(r.val) ELSE None
         /\ result' = IF r.ok THEN result ELSE Some(Err(e))
         /\ failed' = IF r.ok THEN failed ELSE Append(failed, Failure("post", e))
         /\ pc' = after_post(r, ReturnPc)
  /\ UNCHANGED <<call, caller, cli, cfgFile, config, main_text, input, file_path,
                 format, flow, input_text, transcription, dictionary_words,
                 request, refined_text, read_result, fsReads, stdout, stderr,
                 exit>>

\* LLMClient::execute_refinement after the POST; the response is dropped
\* when execute_refinement returns
LLM_Extract ==
  /\ pc = "llm_extract"
  /\ LET r == extract_refined_text(completion.val)
         e == RefinementError(r.err)
     IN
       /\ steps' = Append(steps, "extract")
       /\ refined_text' = IF r.ok THEN Some(r.val) ELSE None
       /\ result' = IF r.ok THEN result ELSE Some(Err(e))
       /\ failed' = IF r.ok THEN failed ELSE Append(failed, Failure("extract", e))
       /\ pc' = try_next(r, "app_format", ReturnPc)
  /\ completion' = None
  /\ UNCHANGED <<call, caller, cli, cfgFile, config, main_text, input, file_path,
                 format, flow, input_text, transcription, dictionary_words,
                 request, read_result, fsReads, netLog, stdout, stderr, exit>>

\* return self.format_output(refined_text, format)
App_FormatOutput ==
  /\ pc = "app_format"
  /\ LET r == format_output(refined_text.val, format) IN
       /\ steps' = Append(steps, "format")
       /\ result' = Some(r)
       /\ failed' = IF r.ok THEN failed ELSE Append(failed, Failure("format", r.err))
  /\ pc' = ReturnPc
  /\ UNCHANGED <<call, caller, cli, cfgFile, config, main_text, input, file_path,
                 format, flow, input_text, transcription, dictionary_words,
                 request, completion, refined_text, read_result, fsReads,
                 netLog, stdout, stderr, exit>>

\* ---------------------------------------------------------- specifications
\* the steps of App::refine_text, and of everything it calls
TextFlow ==
  \/ App_ReadInput
  \/ App_LoadDictionary
  \/ LLM_BuildRequest
  \/ Http_CheckUrl
  \/ Http_Post
  \/ LLM_Extract
  \/ App_FormatOutput

\* one run of the binary
Next ==
  \/ Main_LoadConfig
  \/ Main_ResolveInput
  \/ Main_ResetConfig
  \/ Main_CallRefineText
  \/ Main_Print
  \/ TextFlow

Spec == Init /\ [][Next]_vars

\* one call of App::refine_text or App::refine_whisper_transcription
NextApp ==
  \/ App_ParseWhisper
  \/ TextFlow

SpecApp == InitApp /\ [][NextApp]_vars

\* ------------------------------------------------- functions on their own
\* the variables of the process and of the App method, which stay as they
\* are while a function is called on its own
programVars ==
  <<pc, caller, cli, config, main_text, input, file_path, format, flow,
    input_text, transcription, dictionary_words, request, completion,
    refined_text, result, read_result, steps, failed, fsReads, netLog,
    stdout, stderr, exit>>

\* neither the process nor an App method runs
NoProgram ==
  /\ caller = "unit"
  /\ pc = "call"
  /\ cli = NoCli
  /\ config = None
  /\ input = None
  /\ file_path = None
  /\ format = "Text"
  /\ flow = "none"
  /\ InitLocals

\* the dictionary files of a call of load_dictionary on its own
FileChars == {" ", "a", "b", "#", "\n"}
FileContents == SeqsUpTo(FileChars, MaxFileLen)

\* App::new(config).load_dictionary() about to run: the configuration and
\* what a read of the dictionary file would give
LoadDictionaryCalls ==
  [fn : {"load_dictionary"}, cfg : AppConfigs,
   file : ReadOutcomes(FileContents), ret : {None}, reads : {<<>>}]

\* App::load_dictionary runs and returns
Call_load_dictionary ==
  /\ call.fn = "load_dictionary"
  /\ ~call.ret.some
  /\ call' = [call EXCEPT
                !.ret = Some(load_dictionary(call.cfg, call.file)),
                !.reads = load_dictionary_touches(call.cfg)]
  /\ UNCHANGED <<cfgFile, programVars>>

\* the message contents of a decoded ChatCompletionResponse
MessageContents ==
  {<<>>, <<" ">>, <<"a">>, <<" ", "a", " ">>, <<"a", " ", "b">>, <<"\n", "b">>}

\* execute_refinement with the POST answered: the choices of the response
ExtractCalls ==
  [fn : {"execute_refinement"},
   choices : SeqsUpTo(MessageContents, MaxChoices), ret : {None}]

\* LLMClient::execute_refinement from the decoded response to its return
Call_execute_refinement ==
  /\ call.fn = "execute_refinement"
  /\ ~call.ret.some
  /\ call' = [call EXCEPT !.ret = Some(extract_refined_text(call.choices))]
  /\ UNCHANGED <<cfgFile, programVars>>

\* Config functions called one after the other on the same config file:
\* ops is what each call found, left and returned
ConfigCalls == [fn : {"Config"}, ops : {<<>>}]

\* Config::load()
Call_Config_load ==
  /\ call.fn = "Config"
  /\ Len(call.ops) < MaxOps
  /\ call' = [call EXCEPT !.ops = Append(@,
                [op |-> "load", before |-> cfgFile, after |-> cfgFile,
                 ret |-> Config_load(cfgFile)])]
  /\ UNCHANGED <<cfgFile, programVars>>

\* Config::reset_to_defaults()
Call_Config_reset_to_defaults ==
  /\ call.fn = "Config"
  /\ Len(call.ops) < MaxOps
  /\ \E writable, readable \in BOOLEAN :
       LET r == reset_to_defaults(cfgFile, writable, readable) IN
         /\ cfgFile' = r.file
         /\ call' = [call EXCEPT !.ops = Append(@,
                       [op |-> "reset", before |-> cfgFile, after |-> r.file,
                        ret |-> r.result])]
  /\ UNCHANGED programVars

\* the words of a transcription: WhisperWord, probability in hundredths
WhisperWords ==
  {[word |-> <<" ", "a">>, probability |-> 30],
   [word |-> <<"b">>, probability |-> 20],
   [word |-> <<"a", "b">>, probability |-> 20],
   [word |-> <<"a">>, probability |-> 40],
   [word |-> <<" ">>, probability |-> 10],
   [word |-> <<"A">>, probability |-> 10]}

WordLists == SeqsUpTo(WhisperWords, MaxWords)

\* the texts of a segment
SegmentTexts == {<<"a">>, <<"a", "b">>, <<"b", " ", "a">>}

\* Vec<WhisperSegment>: no segment (n = 0), one segment (n = 1), or two
\* segments that share out the words w at place k
Segments(w, n, k, t1, t2) ==
  IF n = 0 THEN <<>>
  ELSE IF n = 1 THEN <<[text |-> t1, words |-> w]>>
  ELSE <<[text |-> t1, words |-> SubSeq(w, 1, k)],
         [text |-> t2, words |-> SubSeq(w, k + 1, Len(w))]>>

\* WhisperTranscription, as serde_json builds it from a document
Transcription(tx, l, sg) ==
  [text |-> tx, language |-> l, duration |-> None, segments |-> sg]

\* the transcriptions without segments
PlainTranscriptions(Languages) ==
  {Transcription(tx, l, None) : tx \in {None, Some(<<"a">>)}, l \in Languages}

\* transcription.get_low_probability_words(threshold) about to run; the
\* function reads the words of the segments and never their text, so one
\* text stands for all
Init_get_low_probability_words ==
  \E th \in Thresholds :
    \/ \E t \in PlainTranscriptions({None}) :
         call = [fn |-> "get_low_probability_words", transcription |-> t,
                 threshold |-> th, ret |-> None]
    \/ \E w \in WordLists, n \in 0..2, k \in 0..MaxWords :
         /\ k <= Len(w)
         /\ n = 2 \/ k = 0
         /\ n > 0 \/ w = <<>>
         /\ call = [fn |-> "get_low_probability_words",
                    transcription |->
                      Transcription(None, None,
                        Some(Segments(w, n, k, <<"a">>, <<"a">>))),
                    threshold |-> th, ret |-> None]

\* WhisperTranscription::get_low_probability_words runs and returns
Call_get_low_probability_words ==
  /\ call.fn = "get_low_probability_words"
  /\ ~call.ret.some
  /\ call' = [call EXCEPT !.ret =
                Some(get_low_probability_words(call.transcription,
                                               call.threshold))]
  /\ UNCHANGED <<cfgFile, programVars>>

\* build_whisper_user_prompt(&transcription, probability_threshold) about
\* to run; the header is built from the language alone, so a detected
\* language comes with the transcriptions of at most one segment
Init_build_whisper_user_prompt ==
  \E th \in Thresholds, l \in {None, Some("en")} :
    \/ \E t \in PlainTranscriptions({l}) :
         call = [fn |-> "build_whisper_user_prompt", transcription |-> t,
                 threshold |-> th, ret |-> None]
    \/ \E w \in WordLists, n \in 0..2, k \in 0..MaxWords,
          t1 \in SegmentTexts, t2 \in SegmentTexts :
         /\ k <= Len(w)
         /\ n = 2 \/ (k = 0 /\ t2 = t1)
         /\ n > 0 \/ (w = <<>> /\ t1 = <<"a">>)
         /\ n < 2 \/ ~l.some
         /\ call = [fn |-> "build_whisper_user_prompt",
                    transcription |->
                      Transcription(None, l, Some(Segments(w, n, k, t1, t2))),
                    threshold |-> th, ret |-> None]

\* build_whisper_user_prompt runs and returns
Call_build_whisper_user_prompt ==
  /\ call.fn = "build_whisper_user_prompt"
  /\ ~call.ret.some
  /\ call' = [call EXCEPT !.ret =
                Some(build_whisper_user_prompt(call.transcription,
                                               call.threshold))]
  /\ UNCHANGED <<cfgFile, programVars>>

\* ---------------------------------------------------------- TemporaryFile
\* operations::remove_file: tokio::fs::remove_file on a file that exists and
\* may be deleted (`permitted`) removes it; every failure is FileRemove
remove_file(file, permitted) ==
  IF file = "present" /\ permitted
    THEN [file |-> "absent", result |-> Ok(TRUE)]
    ELSE [file |-> file, result |-> Err("FileRemove")]

\* TemporaryFile::new(path)
TemporaryFile_new(path) == [path |-> path, should_cleanup |-> TRUE]

\* keep() that leaves the flag as it is
keep_forgets(tmp) == tmp

\* TemporaryFile::keep(&mut self)
keep(tmp) == [tmp EXCEPT !.should_cleanup = FALSE]

\* cleanup() that clears the flag whether or not the removal succeeded
cleanup_clears_always(tmp, file, permitted) ==
  LET r == remove_file(file, permitted) IN
    [tmp |-> [tmp EXCEPT !.should_cleanup = FALSE], file |-> r.file,
     result |-> r.result]

\* TemporaryFile::cleanup(&mut self): `?` returns the error of remove_file
\* before the flag is cleared
cleanup(tmp, file, permitted) ==
  LET r == remove_file(file, permitted) IN
    IF r.result.ok
      THEN [tmp |-> [tmp EXCEPT !.should_cleanup = FALSE], file |-> r.file,
            result |-> Ok(TRUE)]
      ELSE [tmp |-> tmp, file |-> r.file, result |-> r.result]

\* drop() that spawns the removal whatever the flag says
drop_spawns_always(tmp) == TRUE

\* Drop for TemporaryFile: whether drop() spawns the removal task
drop_spawns(tmp) == tmp.should_cleanup

\* a TemporaryFile just made for a path whose file exists or not; `spawned`
\* is the removal task of drop(): "none", "pending" or "done"
TemporaryFileCalls ==
  [fn : {"TemporaryFile"}, tmp : {TemporaryFile_new("tmp")},
   file : {"present", "absent"}, dropped : {FALSE}, spawned : {"none"},
   stderr : {<<>>}, log : {<<>>}]

\* what the log keeps of one operation: the flag after it, whether it
\* removed the file, whether it spawned the removal task
LogEntry(op, flag, removed, spawns) ==
  [op |-> op, should_cleanup |-> flag, removed |-> removed,
   spawned |-> spawns]

\* tmp.keep()
Call_TemporaryFile_keep ==
  /\ call.fn = "TemporaryFile"
  /\ ~call.dropped
  /\ Len(call.log) < MaxOps
  /\ LET t == keep(call.tmp) IN
       call' = [call EXCEPT !.tmp = t,
                  !.log = Append(@, LogEntry("keep", t.should_cleanup,
                                             FALSE, FALSE))]
  /\ UNCHANGED <<cfgFile, programVars>>

\* tmp.cleanup().await
Call_TemporaryFile_cleanup ==
  /\ call.fn = "TemporaryFile"
  /\ ~call.dropped
  /\ Len(call.log) < MaxOps
  /\ \E permitted \in BOOLEAN :
       LET r == cleanup(call.tmp, call.file, permitted) IN
         call' = [call EXCEPT !.tmp = r.tmp, !.file = r.file,
                    !.log = Append(@, LogEntry("cleanup",
                                     r.tmp.should_cleanup, r.result.ok,
                                     FALSE))]
  /\ UNCHANGED <<cfgFile, programVars>>

\* the value goes out of scope: Drop::drop runs once
Call_TemporaryFile_drop ==
  /\ call.fn = "TemporaryFile"
  /\ ~call.dropped
  /\ LET sp == drop_spawns(call.tmp) IN
       call' = [call EXCEPT !.dropped = TRUE,
                  !.spawned = IF sp THEN "pending" ELSE "none",
                  !.log = Append(@, LogEntry("drop", call.tmp.should_cleanup,
                                             FALSE, sp))]
  /\ UNCHANGED <<cfgFile, programVars>>

\* the task drop() spawned runs: remove_file, and a line on standard error
\* when it fails
Task_remove_file ==
  /\ call.fn = "TemporaryFile"
  /\ call.spawned = "pending"
  /\ \E permitted \in BOOLEAN :
       LET r == remove_file(call.file, permitted) IN
         call' = [call EXCEPT !.file = r.file, !.spawned = "done",
                    !.stderr = IF r.result.ok THEN @
                               ELSE Append(@, <<"Failed to cleanup temporary file '{}': {}",
                                                call.tmp.path, r.result.err>>),
                    !.log = Append(@, LogEntry("task",
                                     call.tmp.should_cleanup, r.result.ok,
                                     FALSE))]
  /\ UNCHANGED <<cfgFile, programVars>>

\* another writer puts a file at the path again
Env_create_file ==
  /\ call.fn = "TemporaryFile"
  /\ call.file = "absent"
  /\ Len(call.log) < MaxOps
  /\ call' = [call EXCEPT !.file = "present",
                !.log = Append(@, LogEntry("create",
                                 call.tmp.should_cleanup, FALSE, FALSE))]
  /\ UNCHANGED <<cfgFile, programVars>>

InitUnit ==
  /\ NoProgram
  /\ \/ cfgFile = AbsentFile /\ call \in LoadDictionaryCalls
     \/ cfgFile = AbsentFile /\ call \in ExtractCalls
     \/ cfgFile \in ConfigFiles /\ call \in ConfigCalls
     \/ cfgFile = AbsentFile /\ Init_get_low_probability_words
     \/ cfgFile = AbsentFile /\ Init_build_whisper_user_prompt
     \/ cfgFile = AbsentFile /\ call \in TemporaryFileCalls

NextUnit ==
  \/ Call_load_dictionary
  \/ Call_execute_refinement
  \/ Call_Config_load
  \/ Call_Config_reset_to_defaults
  \/ Call_get_low_probability_words
  \/ Call_build_whisper_user_prompt
  \/ Call_TemporaryFile_keep
  \/ Call_TemporaryFile_cleanup
  \/ Call_TemporaryFile_drop
  \/ Task_remove_file
  \/ Env_create_file

SpecUnit == InitUnit /\ [][NextUnit]_vars

\* ------------------------------------------------------------------ claims
Range(f) == {f[i] : i \in DOMAIN f}

\* the steps of App::refine_text, in the order of the code
TextOrder ==
  <<"input", "dictionary", "prompt", "probe", "post", "extract", "format">>

\* the requests of one method
Requests(method) == {i \in DOMAIN netLog : netLog[i].method = method}

\* the files one reader opened
ReadsBy(reader) == {i \in DOMAIN fsReads : fsReads[i].by = reader}

\* a probe GET that was answered with 200 or 404
ProbePassed(req) ==
  /\ req.method = "GET"
  /\ req.connected
  /\ req.status \in {STATUS_OK, STATUS_NOT_FOUND}

\* C1: in App::refine_text the steps run in the order input resolution,
\* dictionary load, prompt build and HTTP call, response extraction, output
\* formatting; the first step that fails ends the invocation with its error,
\* no later step runs (no dictionary read and no request after an input
\* failure, no request after a dictionary failure), and a formatted string
\* is returned only when every step ran and none failed.
C1_StepsInOrderFirstFailureEnds ==
  flow = "text" =>
    /\ IsPrefixOf(steps, TextOrder)
    /\ Len(failed) <= 1
    /\ failed # <<>> =>
         /\ failed[1].step = steps[Len(steps)]
         /\ result = Some(Err(failed[1].error))
         /\ pc = ReturnPc
         /\ failed[1].step = "input" =>
              ReadsBy("dictionary") = {} /\ netLog = <<>>
         /\ failed[1].step = "dictionary" => netLog = <<>>
    /\ (result.some /\ result.val.ok) =>
         /\ steps = TextOrder
         /\ failed = <<>>
         /\ result.val = format_output(refined_text.val, format)

\* C1 witness: the input was read from the file, the dictionary read then
\* failed, and the call has returned
C1_Witness ==
  /\ flow = "text"
  /\ pc = "returned"
  /\ ReadsBy("input") # {}
  /\ failed # <<>>
  /\ failed[1].step = "dictionary"

\* C2: a POST is sent only after the probe GET was answered with status 200
\* or 404; when the base URL is malformed, the GET cannot connect or the GET
\* is answered with another status, post_with_json returns an error and no
\* POST is sent.
C2_PostOnlyAfterPassedProbe ==
  /\ \A i \in Requests("POST") : i > 1 /\ ProbePassed(netLog[i - 1])
  /\ ("probe" \in Range(steps)
        /\ (Requests("GET") = {} \/ ~ProbePassed(netLog[1]))) =>
       /\ Requests("POST") = {}
       /\ failed # <<>>
       /\ failed[1].step = "probe"
       /\ result.some
       /\ ~result.val.ok
       /\ result.val.err.class = "Refinement"
       /\ result.val.err.cause[1] = "ApiRequestFailed"

\* C2 witness: the probe was answered with 404 and the POST has been sent
C2_Witness ==
  /\ Len(netLog) = 2
  /\ netLog[1].status = STATUS_NOT_FOUND
  /\ netLog[2].method = "POST"

\* C3: over one invocation at most one probe GET and at most one POST are
\* sent, and once a step has failed no further request is sent.
C3_NoRetry ==
  /\ [](Cardinality(Requests("GET")) <= 1 /\ Cardinality(Requests("POST")) <= 1)
  /\ [][failed # <<>> => netLog' = netLog]_vars

\* C3 witness: the POST was sent and the service answered with an error
C3_Witness ==
  /\ Len(netLog) = 2
  /\ netLog[2].method = "POST"
  /\ ~is_success(netLog[2].status)
  /\ failed # <<>>
  /\ pc = "returned"

\* the messages of main
MSG_NO_INPUT == [msg |-> "Please provide input text or a file path."]
MSG_RESET_DONE == [msg |-> "Configuration has been reset to default values."]

\* the command line has neither --input nor --file before the subcommand
NoTopLevelInput == ~cli.input.some /\ ~cli.file.some

\* C4: for every invocation of a refinement command the process exits 0
\* exactly when the refined, formatted string was printed to standard
\* output; on any error nothing is printed to standard output, one message
\* is printed to standard error and the exit status is 1.
C4_ExitStatusMatchesOutput ==
  cli.command # "ResetConfig" =>
    /\ exit # None <=> pc = "exited"
    /\ exit \in {None, Some(0), Some(1)}
    /\ exit = Some(0) <=> stdout # <<>>
    /\ exit = Some(0) =>
         /\ failed = <<>>
         /\ result.some
         /\ result.val.ok
         /\ refined_text.some
         /\ result.val = format_output(refined_text.val, format)
         /\ stdout = <<[line |-> result.val.val]>>
         /\ stderr = <<>>
    /\ exit = Some(1) => stdout = <<>> /\ Len(stderr) = 1
    /\ (pc = "exited" /\ (failed # <<>> \/ ~config.some)) => exit = Some(1)

\* C4 witness: the text came from the file, was refined and printed
C4_Witness ==
  /\ cli.command = "None"
  /\ cli.file.some
  /\ exit = Some(0)
  /\ stdout # <<>>

\* C5: `reset-config` without --input or --file overwrites the config file
\* with the serialized defaults, prints a confirmation and exits 0 when the
\* write succeeds, exits 1 when the write fails, and runs no refinement and
\* sends no request.  (Stated for the runs in which the configuration
\* loaded.)
C5_ResetConfigWithoutInput ==
  (cli.command = "ResetConfig" /\ NoTopLevelInput /\ config.some
     /\ pc = "exited") =>
    /\ steps = <<>>
    /\ netLog = <<>>
    /\ \/ /\ exit = Some(0)
          /\ cfgFile = PresentFile(toml_to_string(Config_default))
          /\ stdout = <<MSG_RESET_DONE>>
       \/ /\ exit = Some(1)
          /\ stdout = <<>>
          /\ Len(stderr) = 1
          /\ stderr[1].msg = "Failed to reset configuration: {}"

\* C6 as stated: with neither --input nor --file and no subcommand the
\* process prints the missing-input error to standard error, nothing to
\* standard output, exits 1 and sends no request.
C6_NoInputAlwaysReported ==
  (cli.command = "None" /\ NoTopLevelInput /\ pc = "exited") =>
    /\ stderr = <<MSG_NO_INPUT>>
    /\ stdout = <<>>
    /\ exit = Some(1)
    /\ netLog = <<>>

\* C6 amended: with neither --input nor --file and no subcommand the process
\* prints nothing to standard output, exits 1 and sends no request; the one
\* message on standard error is the missing-input error when the
\* configuration loaded, and the configuration error when it did not.
C6_NoInputReportedAfterConfig ==
  (cli.command = "None" /\ NoTopLevelInput /\ pc = "exited") =>
    /\ stdout = <<>>
    /\ exit = Some(1)
    /\ netLog = <<>>
    /\ steps = <<>>
    /\ stderr =
         IF Config_load(cfgFile).ok THEN <<MSG_NO_INPUT>>
         ELSE <<[msg |-> "Configuration Error: {}",
                 config_error |-> Config_load(cfgFile).err]>>

\* C6 witness: the configuration loaded from an existing file and main
\* ended on the missing input
C6_Witness ==
  /\ cli.command = "None"
  /\ NoTopLevelInput
  /\ cfgFile.state = "present"
  /\ config.some
  /\ pc = "exited"

\* C7: `whisper-transcribe` with --input or --file runs the input through
\* App::refine_whisper_transcription with the format of the subcommand's
\* own --output-json flag.  (Stated for the runs in which the configuration
\* loaded.)
C7_WhisperCommandUsesWhisperFlow ==
  (cli.command = "WhisperTranscribe"
     /\ (cli.sub_input.some \/ cli.sub_file.some)
     /\ config.some
     /\ pc = "exited") =>
    /\ flow = "whisper"
    /\ "input" \in Range(steps)
    /\ format = from_flags(cli.sub_output_json)

\* what InputReader::read_input was given to read: the inline text, or the
\* content of the file when the file was read successfully
SelectedContent ==
  IF input.some THEN Some(input.val)
  ELSE IF ReadsBy("input") # {} /\ fsReads[1].outcome.ok
         THEN Some(fsReads[1].outcome.val)
         ELSE None

\* C8 as stated: for every non-empty inline text read_input returns the text
\* unchanged.
C8_NonEmptyInlineReturned ==
  (input.some /\ input.val # <<>> /\ read_result.some) =>
    read_result.val = Ok(input.val)

\* C8 amended: for every inline text that is not empty after trimming
\* whitespace read_input returns the text unchanged.
C8_NonBlankInlineReturned ==
  (input.some /\ trim(input.val) # <<>> /\ read_result.some) =>
    read_result.val = Ok(input.val)

\* C8 witness: an inline text with surrounding whitespace was read, with a
\* file path supplied as well
C8_Witness ==
  /\ input.some
  /\ trim(input.val) # <<>>
  /\ trim(input.val) # input.val
  /\ file_path.some
  /\ read_result.some

\* C9: read_input fails with EmptyInput exactly when the content of the
\* selected source is empty after trimming; otherwise a successful read
\* returns the content verbatim, untrimmed.
C9_EmptyInputIffBlank ==
  read_result.some =>
    /\ read_result.val = Err("EmptyInput") <=>
         (SelectedContent.some /\ trim(SelectedContent.val) = <<>>)
    /\ read_result.val.ok =>
         (SelectedContent.some /\ read_result.val.val = SelectedContent.val)
    /\ (SelectedContent.some /\ trim(SelectedContent.val) # <<>>) =>
         read_result.val = Ok(SelectedContent.val)

\* C9 witness: the file held whitespace only and the read was refused
C9_Witness ==
  /\ ~input.some
  /\ ReadsBy("input") # {}
  /\ SelectedContent.some
  /\ SelectedContent.val # <<>>
  /\ read_result = Some(Err("EmptyInput"))

\* C10: with neither inline text nor file path read_input fails with
\* NoInputProvided and opens no file; with inline text the text is the
\* source and a file path supplied as well is never read; the file is read
\* only when the inline text is absent and a path is present.
C10_SourceSelection ==
  read_result.some =>
    /\ (~input.some /\ ~file_path.some) =>
         read_result.val = Err("NoInputProvided") /\ fsReads = <<>>
    /\ input.some =>
         /\ ReadsBy("input") = {}
         /\ read_result.val \in {Ok(input.val), Err("EmptyInput")}
    /\ ReadsBy("input") # {} <=> (~input.some /\ file_path.some)
    /\ \A i \in ReadsBy("input") : i = 1 /\ fsReads[i].path = file_path.val

\* C10 witness: inline text and file path were both supplied and the read
\* succeeded
C10_Witness ==
  /\ input.some
  /\ file_path.some
  /\ read_result.some
  /\ read_result.val.ok

\* the lines of a dictionary file that load_dictionary is to keep: not empty
\* once trimmed and, trimmed, not starting with '#'
KeptLines(ls) ==
  {i \in DOMAIN ls : trim(ls[i]) # <<>> /\ Head(trim(ls[i])) # "#"}

\* the text of the example: "foo\n# comment\n\nbar  \n"
DictionaryExample ==
  <<"f", "o", "o", "\n", "#", " ", "c", "o", "m", "m", "e", "n", "t", "\n",
    "\n", "b", "a", "r", " ", " ", "\n">>

\* C11: with an empty configured dictionary path load_dictionary returns the
\* empty list, with no error and without reading a file; otherwise it reads
\* the configured file once and returns its lines, each trimmed, without the
\* lines that are empty after trimming or start with '#', in file order
\* ("foo\n# comment\n\nbar  \n" gives ["foo", "bar"]); a read failure gives
\* an Input-class error.
C11_LoadDictionary ==
  (call.fn = "load_dictionary" /\ call.ret.some) =>
    LET dictionary_path == get_custom_dictionary_path(call.cfg)
        r == call.ret.val
    IN
      /\ dictionary_path = "" => (r = Ok(<<>>) /\ call.reads = <<>>)
      /\ dictionary_path # "" =>
           /\ Len(call.reads) = 1
           /\ call.reads[1].path = dictionary_path
           /\ ~call.file.ok => (~r.ok /\ r.err.class = "Input")
           /\ call.file.ok =>
                LET ls == lines(call.file.val)
                    kept == KeptLines(ls)
                IN
                  /\ r.ok
                  /\ Len(r.val) = Cardinality(kept)
                  /\ \A i \in kept :
                       r.val[Cardinality({j \in kept : j <= i})] = trim(ls[i])
      /\ parse_dictionary(DictionaryExample)
           = << <<"f", "o", "o">>, <<"b", "a", "r">> >>

\* C11 witness: a file with a comment line and a word line was read and the
\* word alone was returned
C11_Witness ==
  /\ call.fn = "load_dictionary"
  /\ call.ret.some
  /\ call.file.ok
  /\ Len(lines(call.file.val)) = 2
  /\ \E i \in DOMAIN call.file.val : call.file.val[i] = "#"
  /\ call.ret.val.ok
  /\ Len(call.ret.val.val) = 1

\* s is t without whitespace at its two ends: t is whitespace, then s, then
\* whitespace, and s neither starts nor ends with whitespace
IsTrimOf(s, t) ==
  /\ s # <<>> => (~IsWhitespace(s[1]) /\ ~IsWhitespace(s[Len(s)]))
  /\ \E i \in 1..(Len(t) + 1) :
       /\ SubSeq(t, i, i + Len(s) - 1) = s
       /\ \A k \in DOMAIN t : (k < i \/ k >= i + Len(s)) => IsWhitespace(t[k])

\* C12: after a successful POST execute_refinement returns the content of
\* the first choice only, trimmed; it fails with InvalidResponse when there
\* is no choice and with RefinementFailed when the trimmed content of the
\* first choice is empty, whatever the later choices hold; a successful
\* result is never empty and has no whitespace at either end.
C12_FirstChoiceTrimmed ==
  (call.fn = "execute_refinement" /\ call.ret.some) =>
    LET r == call.ret.val
        choices == call.choices
    IN
      /\ choices = <<>> <=> (~r.ok /\ r.err[1] = "InvalidResponse")
      /\ (choices # <<>> /\ IsTrimOf(<<>>, choices[1])) <=>
           (~r.ok /\ r.err[1] = "RefinementFailed")
      /\ r.ok =>
           /\ IsTrimOf(r.val, choices[1])
           /\ r.val # <<>>
           /\ ~IsWhitespace(r.val[1])
           /\ ~IsWhitespace(r.val[Len(r.val)])

\* C12 witness: the first choice was blank, a later choice was not, and the
\* call failed with RefinementFailed
C12_Witness ==
  /\ call.fn = "execute_refinement"
  /\ call.ret.some
  /\ Len(call.choices) = 2
  /\ call.choices[1] = <<" ">>
  /\ trim(call.choices[2]) # <<>>
  /\ ~call.ret.val.ok
  /\ call.ret.val.err[1] = "RefinementFailed"

\* the NetworkError that ended the call at the POST, if one did
PostError ==
  IF failed # <<>> /\ failed[1].step = "post"
    THEN Some(failed[1].error.cause[2]) ELSE None

\* C13: in post_with_json, once the probe has passed, a POST that cannot be
\* sent gives RequestFailed, a response whose status is not 2xx gives
\* ResponseError whether or not its body would decode, a 2xx response whose
\* body does not deserialize gives DecodeError, and only a 2xx response with
\* a decodable body gives Ok.
C13_PostErrorMapping ==
  \A i \in Requests("POST") :
    LET post == netLog[i]
        is2xx == post.status \in 200..299
    IN
      /\ ProbePassed(netLog[i - 1])
      /\ post.connected <=> PostError # Some("RequestFailed")
      /\ (post.connected /\ ~is2xx) <=> PostError = Some("ResponseError")
      /\ (post.connected /\ is2xx /\ ~post.body_decodes) <=>
           PostError = Some("DecodeError")
      /\ (post.connected /\ is2xx /\ post.body_decodes) <=> PostError = None
      /\ PostError # None =>
           /\ result = Some(Err(failed[1].error))
           /\ failed[1].error.cause[1] = "ApiRequestFailed"
           /\ ~refined_text.some

\* C13 witness: the POST was answered with an error status and a body that
\* would have decoded, and the call ended with ResponseError
C13_Witness ==
  /\ Requests("POST") # {}
  /\ netLog[2].connected
  /\ netLog[2].status = 500
  /\ netLog[2].body_decodes
  /\ PostError = Some("ResponseError")
  /\ pc = "returned"

\* the NetworkError that ended the call at the probe, if one did
ProbeError ==
  IF failed # <<>> /\ failed[1].step = "probe"
    THEN Some(failed[1].error.cause[2]) ELSE None

\* C14: check_url gives InvalidURL, with no request sent, for a base URL
\* that does not parse; otherwise it sends one GET to the base URL and gives
\* RequestFailed when the GET cannot connect, InvalidURL when the status of
\* the answer is neither 200 nor 404, and success when it is 200 or 404.
C14_CheckUrlMapping ==
  "probe" \in Range(steps) =>
    LET base_url == get_llm_url(config.val) IN
      /\ ~UrlParses(base_url) =>
           (netLog = <<>> /\ ProbeError = Some("InvalidURL"))
      /\ UrlParses(base_url) =>
           /\ Requests("GET") = {1}
           /\ netLog[1].url = <<base_url>>
           /\ ~netLog[1].connected <=> ProbeError = Some("RequestFailed")
           /\ (netLog[1].connected /\ netLog[1].status \notin {200, 404}) <=>
                ProbeError = Some("InvalidURL")
           /\ (netLog[1].connected /\ netLog[1].status \in {200, 404}) <=>
                ProbeError = None
      /\ ProbeError # None =>
           (result = Some(Err(failed[1].error)) /\ Requests("POST") = {})

\* C14 witness: the base URL parsed, the GET was answered with status 500
\* and the call ended with InvalidURL
C14_Witness ==
  /\ "probe" \in Range(steps)
  /\ Len(netLog) = 1
  /\ netLog[1].connected
  /\ netLog[1].status = 500
  /\ ProbeError = Some("InvalidURL")
  /\ pc = "returned"

\* C15: with --output-json the process prints the refined string wrapped as
\* the JSON object {"text": <refined>}, without the flag it prints the
\* refined string unchanged, and formatting fails for neither mode.
C15_OutputFollowsJsonFlag ==
  (cli.command = "None" /\ pc = "exited" /\ refined_text.some) =>
    /\ failed = <<>>
    /\ exit = Some(0)
    /\ stdout =
         <<[line |-> IF cli.output_json
                       THEN json_text_object(refined_text.val)
                       ELSE refined_text.val]>>

\* the one message main prints when Config::load failed with error e
ConfigErrorReport(e) ==
  <<[msg |-> "Configuration Error: {}", config_error |-> e]>>

\* C16: Config::load does not fail when the config file is missing: it
\* returns the default configuration (LLM URL http://127.0.0.1:8080, empty
\* dictionary path) and does not create the file; when the file exists it
\* fails with Parse if the content is malformed and with FileRead if the
\* file cannot be read.
C16_ConfigLoad ==
  (pc # "main_load_config" /\ cli.command # "ResetConfig") =>
    /\ ReadsBy("config") = {} <=> cfgFile.state = "absent"
    /\ cfgFile.state = "absent" =>
         /\ config.some
         /\ config.val.llm.url = Some("http://127.0.0.1:8080")
         /\ config.val.general.custom_dictionary_path = Some("")
         /\ get_llm_url(config.val) = "http://127.0.0.1:8080"
         /\ get_custom_dictionary_path(config.val) = ""
    /\ cfgFile.state = "unreadable" =>
         (~config.some /\ stderr = ConfigErrorReport("FileRead"))
    /\ cfgFile.state = "present" =>
         LET doc == cfgFile.content
             well_formed == doc.syntax_ok /\ doc.llm.some /\ doc.general.some
         IN
           /\ ~well_formed =>
                (~config.some /\ stderr = ConfigErrorReport("Parse"))
           /\ well_formed =>
                config = Some([llm |-> doc.llm.val, general |-> doc.general.val])

\* C16 witness: there was no config file, the defaults were loaded, the run
\* went on to its end and there is still no config file
C16_Witness ==
  /\ cfgFile.state = "absent"
  /\ config = Some(Config_default)
  /\ cli.command = "None"
  /\ pc = "exited"
  /\ steps # <<>>

\* the calls of one Config function among those made so far
ConfigOps(op) ==
  IF call.fn = "Config" THEN {i \in DOMAIN call.ops : call.ops[i].op = op}
  ELSE {}

\* the successful calls of reset_to_defaults
Resets == {i \in ConfigOps("reset") : call.ops[i].ret.ok}

WordPlaces(segments) ==
  UNION {{<<sn, wn>> : wn \in DOMAIN segments[sn].words} : sn \in DOMAIN segments}

\* place p comes no later than place q: segment order, then word order
NoLater(p, q) == p[1] < q[1] \/ (p[1] = q[1] /\ p[2] <= q[2])

\* the transcription of the example: probabilities 0.9, 0.3 and 0.5
ThresholdExample ==
  [text |-> None, language |-> None, duration |-> None,
   segments |-> Some(<<[text |-> <<"a">>,
     words |-> <<[word |-> <<"a">>, probability |-> 90],
                 [word |-> <<"b">>, probability |-> 30],
                 [word |-> <<"c">>, probability |-> 50]>>]>>)]

\* C18: get_low_probability_words(threshold) returns exactly the words, over
\* all segments, whose probability is strictly less than the threshold (a
\* word at the threshold is left out), in segment order and then word order,
\* duplicates kept; it returns the empty list when the transcription has no
\* segments field.
C18_LowProbabilityWords ==
  (call.fn = "get_low_probability_words" /\ call.ret.some) =>
    LET r == call.ret.val
        t == call.transcription
    IN
      /\ ~t.segments.some => r = <<>>
      /\ t.segments.some =>
           LET segments == t.segments.val
               low == {p \in WordPlaces(segments) :
                         segments[p[1]].words[p[2]].probability < call.threshold}
           IN
             /\ Len(r) = Cardinality(low)
             /\ \A p \in low :
                  r[Cardinality({q \in low : NoLater(q, p)})]
                    = segments[p[1]].words[p[2]]
      /\ get_low_probability_words(ThresholdExample, 50)
           = <<[word |-> <<"b">>, probability |-> 30]>>

\* C18 witness: two segments, a word at the threshold that was left out and
\* the same low word returned twice
C18_Witness ==
  /\ call.fn = "get_low_probability_words"
  /\ call.ret.some
  /\ call.transcription.segments.some
  /\ Len(call.transcription.segments.val) = 2
  /\ \E p \in WordPlaces(call.transcription.segments.val) :
       call.transcription.segments.val[p[1]].words[p[2]].probability
         = call.threshold
  /\ Len(call.ret.val) = 2
  /\ call.ret.val[1] = call.ret.val[2]

\* a probability of p hundredths written with two decimals
TwoDecimals(p) ==
  CASE p = 10 -> <<"0", ".", "1", "0">>
    [] p = 20 -> <<"0", ".", "2", "0">>
    [] p = 30 -> <<"0", ".", "3", "0">>
    [] p = 40 -> <<"0", ".", "4", "0">>
    [] p = 50 -> <<"0", ".", "5", "0">>

\* the length of a marker " [LOW PROBABILITY: X.XX]": the opening text, four
\* characters of probability and the bracket
MarkerLen == Len(FLAG_OPEN) + 4 + 1

\* text s holds the piece pat from place k on
OccursAt(s, pat, k) ==
  /\ k >= 1
  /\ k + Len(pat) - 1 <= Len(s)
  /\ SubSeq(s, k, k + Len(pat) - 1) = pat

\* text s holds a marker " [LOW PROBABILITY: X.XX]" from place k on
MarkerAt(s, k) ==
  /\ k + MarkerLen - 1 <= Len(s)
  /\ OccursAt(s, FLAG_OPEN, k)
  /\ \E p \in {10, 20, 30, 40, 50} :
       OccursAt(s, TwoDecimals(p), k + Len(FLAG_OPEN))
  /\ s[k + MarkerLen - 1] = "]"

\* the places of text s where a marker starts
MarkerStarts(s) == {k \in DOMAIN s : MarkerAt(s, k)}

\* the places of text s that belong to no marker
Unmarked(s) ==
  {i \in DOMAIN s :
     \A k \in MarkerStarts(s) : i < k \/ i >= k + MarkerLen}

\* text s without its markers
EraseMarkers(s) ==
  [j \in 1..Cardinality(Unmarked(s)) |->
     s[CHOOSE i \in Unmarked(s) :
         Cardinality({x \in Unmarked(s) : x <= i}) = j]]

IsBlank(word) == \A i \in DOMAIN word : word[i] = " "

\* the text of a word that is not blank, without the blanks around it
Bare(word) ==
  LET inside == {i \in DOMAIN word : word[i] # " "}
      first == CHOOSE i \in inside : \A j \in inside : i <= j
      last == CHOOSE i \in inside : \A j \in inside : j <= i
  IN SubSeq(word, first, last)

\* the words below the threshold, in segment order and then word order
LowInOrder(segments, threshold) ==
  LET low == {p \in WordPlaces(segments) :
                segments[p[1]].words[p[2]].probability < threshold}
  IN [n \in 1..Cardinality(low) |->
        LET p == CHOOSE q \in low : Cardinality({x \in low : NoLater(x, q)}) = n
        IN segments[p[1]].words[p[2]]]

RECURSIVE EveryOccurrenceReplaced(_, _, _, _)
\* text s read from place k on, with every occurrence of pat, taken from
\* the left, replaced by rep
EveryOccurrenceReplaced(s, pat, rep, k) ==
  LET occurrences == {i \in k..Len(s) : OccursAt(s, pat, i)} IN
    IF occurrences = {} THEN SubSeq(s, k, Len(s))
    ELSE LET first == CHOOSE i \in occurrences : \A j \in occurrences : i <= j
         IN SubSeq(s, k, first - 1) \o rep
              \o EveryOccurrenceReplaced(s, pat, rep, first + Len(pat))

\* the places of the line feeds of text s
Breaks(s) == {i \in DOMAIN s : s[i] = "\n"}

\* the place of the n-th line feed of text s; 0 for n = 0
NthBreak(s, n) ==
  IF n = 0 THEN 0
  ELSE CHOOSE b \in Breaks(s) : Cardinality({x \in Breaks(s) : x <= b}) = n

\* the pieces of text s that a line feed ends, in order
EndedLines(s) ==
  [n \in 1..Cardinality(Breaks(s)) |->
     SubSeq(s, NthBreak(s, n - 1) + 1, NthBreak(s, n) - 1)]

RECURSIVE MarkedText(_, _, _)
\* a segment's text after the first n flagged words were taken in turn: for
\* each, every occurrence of its trimmed text in the text as it stands is
\* replaced by "<word> [LOW PROBABILITY: X.XX]"
MarkedText(text, low, n) ==
  IF n = 0 THEN text
  ELSE LET so_far == MarkedText(text, low, n - 1) IN
    IF IsBlank(low[n].word) THEN so_far
    ELSE EveryOccurrenceReplaced(so_far, Bare(low[n].word),
           Bare(low[n].word) \o FLAG_OPEN
             \o TwoDecimals(low[n].probability) \o <<"]">>, 1)

C20_WhisperParseFailsFirst ==
  flow = "whisper" =>
    /\ ("parse" \in Range(steps) /\ ~parse_whisper_json(input_text.val).ok) =>
         /\ steps = <<"input", "parse">>
         /\ pc = ReturnPc
         /\ result.some
         /\ ~result.val.ok
         /\ result.val.err.class = "Input"
         /\ result.val.err.cause
              = <<"Failed to parse Whisper JSON: {}",
                  parse_whisper_json(input_text.val).err>>
         /\ ReadsBy("dictionary") = {}
         /\ netLog = <<>>
    /\ ("dictionary" \in Range(steps) \/ netLog # <<>>) =>
         /\ transcription.some
         /\ parse_whisper_json(input_text.val) = Ok(transcription.val)

\* C20 witness: a dictionary is configured, the input was read from the
\* file, it was not Whisper JSON, and the call has returned
C20_Witness ==
  /\ flow = "whisper"
  /\ get_custom_dictionary_path(config.val) # ""
  /\ ReadsBy("input") # {}
  /\ "parse" \in Range(steps)
  /\ ~transcription.some
  /\ pc = "returned"

\* the operations on the TemporaryFile so far
TempLog == IF call.fn = "TemporaryFile" THEN call.log ELSE <<>>

\* the cleanup flag before operation i
FlagBefore(i) == IF i = 1 THEN TRUE ELSE TempLog[i - 1].should_cleanup

\* before operation i: keep() was called, or cleanup() returned success
Disarmed(i) ==
  \E j \in 1..(i - 1) :
    \/ TempLog[j].op = "keep"
    \/ TempLog[j].op = "cleanup" /\ TempLog[j].removed

\* the lifecycle of the flag: drop starts the removal unless keep() or a
\* successful cleanup() came before; a failed cleanup() leaves the flag as
\* it was, keep() and a successful cleanup() clear it
FlagLifecycle ==
  \A i \in DOMAIN TempLog :
    /\ TempLog[i].op = "drop" => (TempLog[i].spawned <=> ~Disarmed(i))
    /\ TempLog[i].op # "drop" => ~TempLog[i].spawned
    /\ TempLog[i].op = "cleanup" =>
         TempLog[i].should_cleanup = (FlagBefore(i) /\ ~TempLog[i].removed)
    /\ TempLog[i].op = "keep" => ~TempLog[i].should_cleanup
    /\ TempLog[i].op \in {"drop", "task", "create"} =>
         TempLog[i].should_cleanup = FlagBefore(i)

\* the removal drop started: one at most, after a drop that spawned it, and
\* none when keep() or a successful cleanup() came before the drop
DropRemoval ==
  /\ Cardinality({i \in DOMAIN TempLog : TempLog[i].op = "task"}) <= 1
  /\ \A i \in DOMAIN TempLog :
       TempLog[i].op = "task" =>
         /\ ~Disarmed(i)
         /\ \E j \in 1..(i - 1) : TempLog[j].op = "drop" /\ TempLog[j].spawned
  /\ call.fn = "TemporaryFile" =>
       (call.spawned = "pending" <=>
          /\ \E j \in DOMAIN TempLog : TempLog[j].spawned
          /\ \A j \in DOMAIN TempLog : TempLog[j].op # "task")

\* C21, as the claim states it: the lifecycle of the flag, and hence the
\* file is successfully removed at most once for one TemporaryFile value and
\* never after keep().
C21_RemovedAtMostOnceNeverAfterKeep ==
  /\ FlagLifecycle
  /\ Cardinality({i \in DOMAIN TempLog : TempLog[i].removed}) <= 1
  /\ \A i, j \in DOMAIN TempLog :
       (i < j /\ TempLog[i].op = "keep") => ~TempLog[j].removed

\* C21, amended: a new TemporaryFile starts the removal of its file when
\* dropped; after keep(), or after cleanup() returned success, dropping it
\* starts no removal; a failed cleanup() leaves the flag set and the drop
\* still starts the removal. Hence the removal that drop starts runs at most
\* once and never after keep() or a successful cleanup(); an explicit
\* cleanup() removes the file whenever remove_file succeeds, after keep()
\* too.
C21_TemporaryFileLifecycle ==
  /\ FlagLifecycle
  /\ DropRemoval
  /\ \A i \in DOMAIN TempLog :
       TempLog[i].removed => TempLog[i].op \in {"cleanup", "task"}

\* cleanup() failed, the drop started the removal and the task removed the
\* file
C21_Witness ==
  /\ call.fn = "TemporaryFile"
  /\ Len(call.log) = 3
  /\ call.log[1].op = "cleanup" /\ ~call.log[1].removed
  /\ call.log[1].should_cleanup
  /\ call.log[2].op = "drop" /\ call.log[2].spawned
  /\ call.log[3].op = "task" /\ call.log[3].removed
  /\ call.file = "absent"

\* C22: `reset-config` reaches the overwrite of the config file whatever the
\* file held before: also when the file is malformed or unreadable the run
\* ends with the file replaced by the defaults and status 0 (or, when the
\* write itself fails, with the reset error).  (Stated for the runs with
\* --input, in which main gets as far as the match on the command once the
\* configuration is loaded.)
C22_ResetConfigWhateverTheFile ==
  (cli.command = "ResetConfig" /\ cli.input.some /\ pc = "exited") =>
    \/ /\ exit = Some(0)
       /\ cfgFile.state \in {"present", "unreadable"}
       /\ cfgFile.content = toml_to_string(Config_default)
       /\ stdout = <<MSG_RESET_DONE>>
    \/ /\ exit = Some(1)
       /\ Len(stderr) = 1
       /\ stderr[1].msg = "Failed to reset configuration: {}"

\* the marker " [LOW PROBABILITY: X.XX]" of a probability of p hundredths
MarkerOf(p) == FLAG_OPEN \o TwoDecimals(p) \o <<"]">>

\* the words of a segment that are below the threshold and not blank
OwnLowWords(segment, threshold) ==
  {w \in Range(segment.words) : w.probability < threshold /\ ~IsBlank(w.word)}

\* C23: in the user prompt a marker stands in the line of a segment only for
\* a word of that segment's own word list whose probability is below the
\* threshold: every marker in the line carries the probability of such a
\* word, whose text the segment's text holds, and the line of a segment with
\* no such word is the segment's text as it was.
C23_MarkersFromOwnSegmentOnly ==
  (call.fn = "build_whisper_user_prompt" /\ call.ret.some
     /\ call.transcription.segments.some) =>
    LET segments == call.transcription.segments.val
        ls == EndedLines(call.ret.val.text)
    IN \A n \in DOMAIN segments :
         LET own == OwnLowWords(segments[n], call.threshold) IN
           /\ \A k \in DOMAIN ls[n] : \A p \in {10, 20, 30, 40, 50} :
                OccursAt(ls[n], MarkerOf(p), k) =>
                  \E w \in own :
                    /\ w.probability = p
                    /\ \E i \in DOMAIN segments[n].text :
                         OccursAt(segments[n].text, Bare(w.word), i)
           /\ own = {} => ls[n] = segments[n].text

\* the places of a text where an occurrence of one of the words ends
EndPlaces(text, words) ==
  {e \in DOMAIN text :
     \E w \in words : OccursAt(text, Bare(w), e - Len(Bare(w)) + 1)}

\* C24: in the line of a segment each occurrence of a flagged word is
\* followed by exactly one marker and no marker is rewritten, whatever the
\* list of low-probability words (the same text twice, one text inside
\* another or inside the marker); blank flagged words change nothing.  That
\* is: the line without its markers is the segment's text, and the markers
\* stand, one each, behind the places of the text where an occurrence of a
\* flagged word ends.  (Stated for the transcriptions of one segment, where
\* every flagged word is a word of the segment.)
C24_OneMarkerPerOccurrence ==
  (call.fn = "build_whisper_user_prompt" /\ call.ret.some
     /\ call.transcription.segments.some
     /\ Len(call.transcription.segments.val) = 1) =>
    LET segments == call.transcription.segments.val
        low == LowInOrder(segments, call.threshold)
        flagged == {low[i].word : i \in {j \in DOMAIN low : ~IsBlank(low[j].word)}}
        ls == EndedLines(call.ret.val.text)
    IN \A n \in DOMAIN segments :
         LET line == ls[n]
             behind == {Cardinality({x \in Unmarked(line) : x < k}) :
                          k \in MarkerStarts(line)}
         IN /\ EraseMarkers(line) = segments[n].text
            /\ behind = EndPlaces(segments[n].text, flagged)
            /\ Cardinality(MarkerStarts(line)) = Cardinality(behind)

\* the steps that resolve the input, and the steps of the LLM client and of
\* the formatting
InputSteps == {"input", "parse", "dictionary"}
ClientSteps == {"probe", "post", "extract", "format"}

\* the failures of the network layer
NetworkErrors == {"InvalidURL", "RequestFailed", "ResponseError", "DecodeError"}

\* C25: a call of App::refine_text or App::refine_whisper_transcription that
\* fails returns RuntimeError::Input when the input could not be resolved,
\* the Whisper JSON not parsed or the dictionary not read, and
\* RuntimeError::Refinement for every failure of the LLM client, the network
\* failures InvalidURL, RequestFailed, ResponseError and DecodeError
\* included; RuntimeError::LLM is never returned.
C25_ErrorClasses ==
  /\ Len(failed) <= 1
  /\ (result.some /\ ~result.val.ok) <=> failed # <<>>
  /\ failed # <<>> =>
       LET f == failed[1] IN
         /\ result.val.err = f.error
         /\ f.error.class \in {"Input", "Refinement"}
         /\ f.step \in InputSteps <=> f.error.class = "Input"
         /\ f.step \in ClientSteps <=> f.error.class = "Refinement"
         /\ f.step \in {"probe", "post"} <=>
              (f.error.cause[1] = "ApiRequestFailed"
                 /\ f.error.cause[2] \in NetworkErrors)

\* C25 witness: the body of a 2xx answer did not decode and the call
\* returned the DecodeError as a Refinement error
C25_Witness ==
  /\ pc = "returned"
  /\ failed # <<>>
  /\ failed[1].step = "post"
  /\ failed[1].error.cause[2] = "DecodeError"
  /\ result = Some(Err(failed[1].error))
  /\ result.val.err.class = "Refinement"

====
